---- MODULE Spec2Model ----
(***************************************************************************)
(* State machine of CrewAIDashboardClient (dashboard/js/websocket-client.js): *)
(* the connection lifecycle, the reconnect policy, the ping interval and    *)
(* the connection-status display.                                           *)
(*                                                                          *)
(* Every action is one callback of the browser's event loop (a WebSocket    *)
(* event handler, a timer callback) or one call of a public method, run to  *)
(* completion.  The browser side of a WebSocket follows the WHATWG          *)
(* WebSocket interface: a connection that fails fires `error` and then      *)
(* `close`; close() on a CONNECTING or OPEN socket makes it CLOSING.        *)
(***************************************************************************)
EXTENDS Integers, Sequences, FiniteSets, TLC

\* websocket-client.js:9  this.maxReconnectAttempts = 10
maxReconnectAttempts == 10

\* Number of WebSocket objects that can be alive at once in the model
\* (identities of garbage sockets are reused).
MaxSockets == 2

Sockets == 1..MaxSockets

\* States of one WebSocket object.  NONE: no such object.  ERRORED: the
\* connection has failed, readyState is CLOSED, `error` has been dispatched
\* and `close` is still queued.  CLOSED: `close` has been dispatched.
TransportStates == {"NONE", "CONNECTING", "OPEN", "CLOSING", "ERRORED", "CLOSED"}

\* A numeric field that the frame does not carry (undefined in JavaScript).
NoNumber == 0 - 1

\* A numeric field that carries a string (it has no toFixed method).
NotANumber == 0 - 2

\* Entities the server can name.  AgentIds and TaskIds are what frames carry
\* as agent_id and task_id; an id or status the frame does not carry is
\* "undefined", the text JavaScript interpolates for it.
AgentIds == {"AGT-1", "AGT-2"}
TaskIds == {"T1", "T2"}

\* Pipeline stages the server can name, and those that have an element
\* [data-stage=...] on the page.
StageIds == {"build", "test", "deploy"}
PageStages == {"build", "test"}

\* Elements getElementById finds for the system metrics.
MetricIds == {"tcr", "velocity", "total-agents"}

\* Lifecycle stages of a task, and the statuses of a pipeline stage.
TaskStages == {"backlog", "in_progress", "testing", "done", "failed"}
StageStatuses == {"pending", "running", "completed", "failed"}

\* The count of consecutive closes is kept up to two past the cap.
CloseCountCap == maxReconnectAttempts + 2

\* The count of pings without a pong is kept up to this many.
MaxUnacked == 3

VARIABLES
    urlValid,           \* new WebSocket(this.wsUrl) succeeds (FALSE: it throws)
    ws,                 \* this.ws: 0 for null, else a socket
    transport,          \* state of each WebSocket object
    isConnected,        \* this.isConnected
    reconnectAttempts,  \* this.reconnectAttempts
    pingArmed,          \* the setInterval of the constructor is still running
    reconnectTimers,    \* number of pending setTimeout(() => this.connect())
    statusText,         \* textContent of '.status-item span:last-child'
    indicatorActive,    \* '.status-indicator' has class 'active' (green)
    sent,               \* frames put on the wire by the latest callback
    lastOp,             \* the latest callback that ran
    closes,             \* closes since the last open (history)
    stopRequested,      \* disconnect() was called on a live transport (history)
    metrics,            \* textContent of #tcr, #velocity, #total-agents
    agentGrid,          \* the [data-agent-id] cards of #agent-grid, in order
    board,              \* the .task-card children of the four .kanban-column
    stages,             \* status class of each [data-stage] element
    unacked,            \* pings sent since the last pong (history)
    recovered           \* the open session was reached by a connect() made
                        \* after the retries had run out (history)

vars == <<urlValid, ws, transport, isConnected, reconnectAttempts, pingArmed,
          reconnectTimers, statusText, indicatorActive, sent, lastOp, closes,
          stopRequested, metrics, agentGrid, board, stages, unacked,
          recovered>>

\* The variables of the view model.
viewVars == <<metrics, agentGrid, board, stages>>

\* A callback that ran: which one, on which socket, in which state it found
\* that socket, with which frame, and whether new WebSocket() threw in it.
Op(op, s, from, frame, threw) ==
    [op |-> op, sock |-> s, from |-> from, frame |-> frame, threw |-> threw]

----------------------------------------------------------------------------
(* WebSocket interface *)

\* WebSocket.readyState of a socket in model state st.
ReadyState(st) == IF st = "ERRORED" THEN "CLOSED" ELSE st

\* WebSocket.close(): starts the closing handshake of a CONNECTING or OPEN
\* socket, does nothing on a CLOSING or CLOSED one.
wsClose(st) == IF st \in {"CONNECTING", "OPEN"} THEN "CLOSING" ELSE st

IsFree(st) == st \in {"NONE", "CLOSED"}

\* The identity given to the next WebSocket object.
FreeSocket(tr) == CHOOSE s \in Sockets : IsFree(tr[s]) /\ \A t \in Sockets : t < s => ~IsFree(tr[t])

HasFreeSocket(tr) == \E s \in Sockets : IsFree(tr[s])

LiveSockets(tr) == {s \in Sockets : ~IsFree(tr[s])}

----------------------------------------------------------------------------
(* Methods of CrewAIDashboardClient *)

\* send(data) without the test of readyState.
send_unguarded(data, w, tr) ==
    IF w # 0 THEN << [sock |-> w, type |-> data] >> ELSE << >>

\* send(data): the frames transmitted, given this.ws and the sockets' states.
send(data, w, tr) ==
    IF w # 0 /\ ReadyState(tr[w]) = "OPEN"
    THEN << [sock |-> w, type |-> data] >>
    ELSE << >>

\* onConnect() of a client that forgets the initial request.
onConnect_silent(w, tr) == << >>

\* onConnect(): requests the initial data.
onConnect(w, tr) == send("get_metrics", w, tr)

\* updateConnectionStatus(connected), with the status elements on the page.
updateConnectionStatus(connected) ==
    /\ indicatorActive' = connected
    /\ statusText' = IF connected THEN "System Online" ELSE "Connecting..."

\* The try block of connect(): a new socket becomes this.ws unless the
\* WebSocket constructor throws, which the catch block only logs.
connect ==
    IF urlValid
    THEN LET s == FreeSocket(transport) IN
         /\ transport' = [transport EXCEPT ![s] = "CONNECTING"]
         /\ ws' = s
    ELSE UNCHANGED <<transport, ws>>

\* The reconnect decision of ws.onclose with `<=` written for `<`.
reconnectPolicy_inclusive(attempts, timers) ==
    IF attempts <= maxReconnectAttempts
    THEN [attempts |-> attempts + 1, timers |-> timers + 1]
    ELSE [attempts |-> attempts, timers |-> timers]

\* The reconnect decision of ws.onclose without `this.reconnectAttempts++`.
reconnectPolicy_uncounted(attempts, timers) ==
    IF attempts < maxReconnectAttempts
    THEN [attempts |-> attempts, timers |-> timers + 1]
    ELSE [attempts |-> attempts, timers |-> timers]

\* The reconnect decision of ws.onclose without the test against the cap.
reconnectPolicy_unbounded(attempts, timers) ==
    [attempts |-> attempts + 1, timers |-> timers + 1]

\* The reconnect decision of ws.onclose arming a second timeout while one is
\* pending or about to be.
reconnectPolicy_twice(attempts, timers) ==
    IF attempts < maxReconnectAttempts
    THEN [attempts |-> attempts + 1, timers |-> timers + 2]
    ELSE [attempts |-> attempts, timers |-> timers]

\* The reconnect decision of ws.onclose: the retry count and the number of
\* pending reconnect timeouts after it.
reconnectPolicy(attempts, timers) ==
    IF attempts < maxReconnectAttempts
    THEN [attempts |-> attempts + 1, timers |-> timers + 1]
    ELSE [attempts |-> attempts, timers |-> timers]

\* The session fields of the client, as one value.
Session ==
    [ws |-> ws, transport |-> transport, isConnected |-> isConnected,
     reconnectAttempts |-> reconnectAttempts, pingArmed |-> pingArmed,
     reconnectTimers |-> reconnectTimers]

\* disconnect() of a client that also drops its handle (this.ws = null).
disconnectResult_dropsHandle(S) ==
    [S EXCEPT !.pingArmed = FALSE,
              !.transport = IF S.ws # 0
                            THEN [S.transport EXCEPT ![S.ws] = wsClose(@)]
                            ELSE S.transport,
              !.ws = 0]

\* disconnect() as a function of the session.
disconnectResult(S) ==
    [S EXCEPT !.pingArmed = FALSE,
              !.transport = IF S.ws # 0
                            THEN [S.transport EXCEPT ![S.ws] = wsClose(@)]
                            ELSE S.transport]

----------------------------------------------------------------------------
(* Frames *)

\* Inbound frames after JSON.parse, by their fields.  Numbers are carried in
\* hundredths (90.5 is 9050) so that toFixed(1) and Math.round have something
\* to round; a count such as total_agents is carried as it is.
NoFrame == [kind |-> "none"]

\* Text that JSON.parse rejects, or the JSON text null (reading .type throws).
Unparseable == [kind |-> "unparseable"]

\* A type that no case names, or no type at all.
UnknownType == [kind |-> "unknown"]

\* JSON that is not an object (a number, a string, an array, true): its .type
\* is undefined.
NotAnObject == [kind |-> "not_object"]

Pong == [kind |-> "pong"]

SystemUpdate(tcr, velocity, total) ==
    [kind |-> "system_update", system_tcr |-> tcr, system_velocity |-> velocity,
     total_agents |-> total]

MetricUpdate(agentId, rate) ==
    [kind |-> "metric_update", agent_id |-> agentId, task_completion_rate |-> rate]

TaskData(taskId, status, description, agent, duration) ==
    [task_id |-> taskId, status |-> status, description |-> description,
     agent |-> agent, duration |-> duration]

TaskUpdate(taskId, status, description, agent, duration) ==
    [kind |-> "task_update", task_id |-> taskId, status |-> status,
     description |-> description, agent |-> agent, duration |-> duration]

PipelineUpdate(stage, status) ==
    [kind |-> "pipeline_update", stage |-> stage, status |-> status]

\* An initial frame.  system_metrics and agents are JSON objects, given as the
\* sequence of their entries in key order; a section the frame does not carry
\* has its has_ flag FALSE.
InitialData(hasMetrics, systemMetrics, hasAgents, agents, hasTasks, recentTasks) ==
    [kind |-> "initial",
     has_system_metrics |-> hasMetrics, system_metrics |-> systemMetrics,
     has_agents |-> hasAgents, agents |-> agents,
     has_recent_tasks |-> hasTasks, recent_tasks |-> recentTasks]

----------------------------------------------------------------------------
(* The view model: what the handlers write into the page *)

\* The page is the dashboard's: it has the elements #tcr, #velocity,
\* #total-agents and #agent-grid and four .kanban-column elements that are
\* the first four children of their parent, so that :nth-child(k) and
\* querySelectorAll('.kanban-column')[k - 1] name the same column.  The cards
\* that populateAgentGrid() draws carry no data-agent-id, so no selector of
\* the client finds them: the grid starts without addressable cards, as does
\* the board.

\* The view as one value.
View == [metrics |-> metrics, agentGrid |-> agentGrid, board |-> board, stages |-> stages]

\* The text of a metric element: the page's own text, or a number n shown in
\* format fmt ("fixed1%": tenths followed by '%', "integer", "raw": as carried).
Static == [fmt |-> "static", n |-> 0]
Text(fmt, n) == [fmt |-> fmt, n |-> n]

\* Number.prototype.toFixed(1) of x hundredths, in tenths.
toFixed1(x) == (x + 5) \div 10

\* Math.round of x hundredths.
mathRound(x) == (x + 50) \div 100

\* updateMetricValue(metricId, value): sets the element's text if it exists.
updateMetricValue(metricId, value, M) ==
    IF metricId \in DOMAIN M THEN [M EXCEPT ![metricId] = value] ELSE M

\* handleSystemUpdate() that rewrites every metric, 0 for an absent field.
handleSystemUpdate_total(data, M) ==
    [M EXCEPT !["tcr"] = Text("fixed1%", IF data.system_tcr # NoNumber
                                           THEN toFixed1(data.system_tcr) ELSE 0),
              !["velocity"] = Text("integer", IF data.system_velocity # NoNumber
                                              THEN mathRound(data.system_velocity) ELSE 0),
              !["total-agents"] = Text("raw", IF data.total_agents # NoNumber
                                              THEN data.total_agents ELSE 0)]

\* handleSystemUpdate(data): one write per field that is not undefined.
handleSystemUpdate(data, M) ==
    LET M1 == IF data.system_tcr # NoNumber
              THEN updateMetricValue("tcr", Text("fixed1%", toFixed1(data.system_tcr)), M)
              ELSE M
        M2 == IF data.system_velocity # NoNumber
              THEN updateMetricValue("velocity", Text("integer", mathRound(data.system_velocity)), M1)
              ELSE M1
    IN  IF data.total_agents # NoNumber
        THEN [M2 EXCEPT !["total-agents"] = Text("raw", data.total_agents)]
        ELSE M2

\* updateSystemMetrics(metrics): each entry whose key is the id of an element
\* becomes that element's text, as carried.
RECURSIVE updateSystemMetrics(_, _)
updateSystemMetrics(entries, M) ==
    IF entries = << >> THEN M
    ELSE LET e == Head(entries) IN
         updateSystemMetrics(Tail(entries),
             IF e.key \in DOMAIN M THEN [M EXCEPT ![e.key] = Text("raw", e.value)] ELSE M)

\* document.querySelector('[data-agent-id="id"]'): the position of the first
\* such card in the grid, 0 if there is none.
AgentIndex(grid, agentId) ==
    IF \E i \in 1..Len(grid) : grid[i].id = agentId
    THEN CHOOSE i \in 1..Len(grid) :
            grid[i].id = agentId /\ \A j \in 1..(i - 1) : grid[j].id # agentId
    ELSE 0

\* The rate of these metrics makes .toFixed(1) throw a TypeError.
Throws(m) == m.task_completion_rate = NotANumber

\* createAgentCard(agentId, metrics): a card appended to #agent-grid; its
\* health class is fixed from the rate it is created with (undefined or 0: 0).
\* A rate that throws does so before the card is appended.
createAgentCard(agentId, m, grid) ==
    LET tcr == IF m.task_completion_rate = NoNumber THEN 0 ELSE m.task_completion_rate IN
    IF Throws(m) THEN grid ELSE
    Append(grid, [id |-> agentId, tcr |-> toFixed1(tcr),
                  health |-> IF tcr >= 8000 THEN "healthy" ELSE "warning"])

\* updateAgentMetric() that never looks for an existing card.
updateAgentMetric_alwaysCreates(agentId, m, grid) == createAgentCard(agentId, m, grid)

\* updateAgentMetric() that leaves an existing card as it is.
updateAgentMetric_createsOnly(agentId, m, grid) ==
    IF AgentIndex(grid, agentId) = 0 THEN createAgentCard(agentId, m, grid) ELSE grid

\* updateAgentMetric(agentId, metrics): find or create the card; an existing
\* card gets the rate's text when the rate is carried (a rate that throws
\* does so before the text is set).
updateAgentMetric(agentId, m, grid) ==
    LET i == AgentIndex(grid, agentId) IN
    IF i = 0 THEN createAgentCard(agentId, m, grid)
    ELSE IF m.task_completion_rate # NoNumber /\ ~Throws(m)
         THEN [grid EXCEPT ![i].tcr = toFixed1(m.task_completion_rate)]
         ELSE grid

\* updateAgentMetrics(agents): updateAgentMetric for each entry, in key
\* order, up to the first entry that throws.
RECURSIVE updateAgentMetrics(_, _)
updateAgentMetrics(entries, grid) ==
    IF entries = << >> \/ Throws(Head(entries)) THEN grid
    ELSE updateAgentMetrics(Tail(entries),
             updateAgentMetric(Head(entries).agent_id, Head(entries), grid))

\* handleMetricUpdate(data): with an agent_id the agent's card is updated;
\* without one the call this.updateSystemMetric(data) throws, the class having
\* no such method, and ws.onmessage catches it.
handleMetricUpdate(data, V) ==
    IF data.agent_id # "undefined"
    THEN [V EXCEPT !.agentGrid = updateAgentMetric(data.agent_id, data, V.agentGrid)]
    ELSE V

\* The board with no card on it.
EmptyBoard == [c \in 1..4 |-> << >>]

\* The column createTaskCard puts a status in (first column by default).
columnIndex(status) ==
    CASE status = "backlog"     -> 1
      [] status = "in_progress" -> 2
      [] status = "testing"     -> 3
      [] status \in {"done", "failed"} -> 4
      [] OTHER                  -> 1

\* The column handleTaskUpdate moves a status to, 0 when it names none.
targetColumn(status) ==
    CASE status = "backlog"     -> 1
      [] status = "in_progress" -> 2
      [] status = "testing"     -> 3
      [] status \in {"done", "failed"} -> 4
      [] OTHER                  -> 0

\* createTaskCard(taskData): a card appended to the column of its status.
createTaskCard(taskData, B) ==
    [B EXCEPT ![columnIndex(taskData.status)] =
        Append(@, [id |-> taskData.task_id,
                   status |-> taskData.status,
                   description |-> IF taskData.description = "undefined"
                                   THEN "Task" ELSE taskData.description,
                   agent |-> taskData.agent,
                   duration |-> IF taskData.duration \in {NoNumber, 0}
                                THEN NoNumber ELSE toFixed1(taskData.duration)])]

\* The columns that hold a card with this data-task-id.
TaskColumns(B, taskId) == {c \in 1..4 : \E i \in 1..Len(B[c]) : B[c][i].id = taskId}

\* document.querySelector('[data-task-id="id"]'): column and position of the
\* first such card in document order, <<0, 0>> if there is none.
TaskPos(B, taskId) ==
    IF TaskColumns(B, taskId) = {} THEN <<0, 0>>
    ELSE LET c == CHOOSE c \in TaskColumns(B, taskId) :
                      \A d \in TaskColumns(B, taskId) : c <= d
             i == CHOOSE i \in 1..Len(B[c]) :
                      B[c][i].id = taskId /\ \A j \in 1..(i - 1) : B[c][j].id # taskId
         IN <<c, i>>

\* A sequence without its i-th element.
RemoveAt(seq, i) == SubSeq(seq, 1, i - 1) \o SubSeq(seq, i + 1, Len(seq))

\* handleTaskUpdate() that creates a card without looking for an existing one.
handleTaskUpdate_alwaysCreates(data, B) == createTaskCard(data, B)

\* handleTaskUpdate() that replaces an existing card by a card made from the
\* event.
handleTaskUpdate_recreates(data, B) ==
    LET pos == TaskPos(B, data.task_id) IN
    IF pos[1] = 0 THEN createTaskCard(data, B)
    ELSE createTaskCard(data, [B EXCEPT ![pos[1]] = RemoveAt(@, pos[2])])

\* handleTaskUpdate(data): the first card with the task id gets the status as
\* its class and is appended to the status's column when it names one; with
\* no such card, one is created.
handleTaskUpdate(data, B) ==
    LET pos == TaskPos(B, data.task_id) IN
    IF pos[1] = 0 THEN createTaskCard(data, B)
    ELSE LET card == [B[pos[1]][pos[2]] EXCEPT !.status = data.status]
             to == targetColumn(data.status)
         IN  IF to = 0
             THEN [B EXCEPT ![pos[1]][pos[2]] = card]
             ELSE LET B1 == [B EXCEPT ![pos[1]] = RemoveAt(@, pos[2])] IN
                  [B1 EXCEPT ![to] = Append(@, card)]

RECURSIVE createTaskCards(_, _)
createTaskCards(tasks, B) ==
    IF tasks = << >> THEN B
    ELSE createTaskCards(Tail(tasks), createTaskCard(Head(tasks), B))

\* updateRecentTasks() that keeps the cards already on the board.
updateRecentTasks_keeps(tasks, B) == createTaskCards(tasks, B)

\* updateRecentTasks(tasks): every card is removed from every column, then a
\* card is created for each listed task, in order.
updateRecentTasks(tasks, B) == createTaskCards(tasks, EmptyBoard)

\* handlePipelineUpdate() that keeps a single stage running: a stage set to
\* running puts every other running stage back to pending.
handlePipelineUpdate_singleRunning(data, S) ==
    IF data.stage \in DOMAIN S
    THEN [g \in DOMAIN S |->
            IF g = data.stage THEN data.status
            ELSE IF data.status = "running" /\ S[g] = "running" THEN "pending"
            ELSE S[g]]
    ELSE S

\* handlePipelineUpdate() that writes nothing.
handlePipelineUpdate_noPatch(data, S) == S

\* handlePipelineUpdate(data): the stage's element, if the page has one, gets
\* the status as its class.
handlePipelineUpdate(data, S) ==
    IF data.stage \in DOMAIN S THEN [S EXCEPT ![data.stage] = data.status] ELSE S

\* updateAgentMetrics(agents) ends in an exception.
AgentsThrow(entries) == \E i \in 1..Len(entries) : Throws(entries[i])

\* handleInitialData() that takes a section it does not carry for an empty
\* one.
handleInitialData_absentIsEmpty(data, V) ==
    LET V1 == [V EXCEPT !.metrics = updateSystemMetrics(data.system_metrics, @)]
        V2 == [V1 EXCEPT !.agentGrid = updateAgentMetrics(data.agents, @)]
    IN  IF ~AgentsThrow(data.agents)
        THEN [V2 EXCEPT !.board = updateRecentTasks(data.recent_tasks, @)]
        ELSE V2

\* handleInitialData(data): the three sections in order, each if carried; an
\* exception in the agents leaves what was written before it and skips the
\* tasks.
handleInitialData(data, V) ==
    LET V1 == IF data.has_system_metrics
              THEN [V EXCEPT !.metrics = updateSystemMetrics(data.system_metrics, @)]
              ELSE V
        V2 == IF data.has_agents
              THEN [V1 EXCEPT !.agentGrid = updateAgentMetrics(data.agents, @)]
              ELSE V1
    IN  IF data.has_recent_tasks /\ ~(data.has_agents /\ AgentsThrow(data.agents))
        THEN [V2 EXCEPT !.board = updateRecentTasks(data.recent_tasks, @)]
        ELSE V2

\* The client state a frame can act on.
Client == [session |-> Session, view |-> View]

\* The switch of handleMessage(data) on the view, with what ws.onmessage
\* catches: a frame that does not parse, and the call of the missing method in
\* handleMetricUpdate, leave the view as the statements before them made it.
dispatch(f, V) ==
    CASE f.kind = "initial"         -> handleInitialData(f, V)
      [] f.kind = "metric_update"   -> handleMetricUpdate(f, V)
      [] f.kind = "task_update"     -> [V EXCEPT !.board = handleTaskUpdate(f, @)]
      [] f.kind = "system_update"   -> [V EXCEPT !.metrics = handleSystemUpdate(f, @)]
      [] f.kind = "pipeline_update" -> [V EXCEPT !.stages = handlePipelineUpdate(f, @)]
      [] f.kind = "pong"            -> V
      [] f.kind = "unparseable"     -> V
      [] OTHER                      -> V

\* handleMessage() that answers a pong with a ping.
handleMessage_echo(f, C) ==
    [session |-> C.session, view |-> dispatch(f, C.view),
     sent |-> IF f.kind = "pong"
              THEN send("ping", C.session.ws, C.session.transport) ELSE << >>]

\* handleMessage() whose default case marks the first pipeline stage failed.
handleMessage_defaultFails(f, C) ==
    [session |-> C.session,
     view |-> IF f.kind \in {"unknown", "not_object"}
              THEN [C.view EXCEPT !.stages = [g \in PageStages |-> "failed"]]
              ELSE dispatch(f, C.view),
     sent |-> << >>]

\* ws.onmessage that drops the frames that arrive after disconnect().
handleMessage_dropsWhenStopped(f, C) ==
    [session |-> C.session,
     view |-> IF C.session.pingArmed THEN dispatch(f, C.view) ELSE C.view,
     sent |-> << >>]

\* ws.onmessage that resets the metrics when a frame does not parse.
handleMessage_resetsOnError(f, C) ==
    [session |-> C.session,
     view |-> IF f.kind = "unparseable"
              THEN [C.view EXCEPT !.metrics = [m \in MetricIds |-> Static]]
              ELSE dispatch(f, C.view),
     sent |-> << >>]

\* ws.onmessage: JSON.parse and handleMessage(data) for frame f, as a function
\* of the client state: the session and the view after it, and the frames
\* sent.  No case touches a session field or sends.
handleMessage(f, C) ==
    [session |-> C.session, view |-> dispatch(f, C.view), sent |-> << >>]

----------------------------------------------------------------------------
(* Initial state: the state the constructor leaves *)

Init ==
    /\ urlValid \in BOOLEAN
    /\ transport = [s \in Sockets |-> IF urlValid /\ s = 1 THEN "CONNECTING" ELSE "NONE"]
    /\ ws = IF urlValid THEN 1 ELSE 0
    /\ isConnected = FALSE
    /\ reconnectAttempts = 0
    /\ pingArmed = TRUE
    /\ reconnectTimers = 0
    /\ statusText = "static"
    /\ indicatorActive \in BOOLEAN
    /\ sent = << >>
    /\ lastOp = Op("constructor", ws, "NONE", NoFrame, ~urlValid)
    /\ closes = 0
    /\ stopRequested = FALSE
    /\ metrics = [m \in MetricIds |-> Static]
    /\ agentGrid = << >>
    /\ board = EmptyBoard
    /\ stages = [g \in PageStages |-> "static"]
    /\ unacked = 0
    /\ recovered = FALSE

----------------------------------------------------------------------------
(* Callbacks *)

\* ws.onopen without `this.reconnectAttempts = 0`.
onopen_keepsCount(s) ==
    /\ transport[s] = "CONNECTING"
    /\ transport' = [transport EXCEPT ![s] = "OPEN"]
    /\ isConnected' = TRUE
    /\ sent' = onConnect(ws, transport')
    /\ updateConnectionStatus(TRUE)
    /\ closes' = 0
    /\ unacked' = 0
    /\ recovered' = (closes > maxReconnectAttempts)
    /\ lastOp' = Op("onopen", s, transport[s], NoFrame, FALSE)
    /\ UNCHANGED <<urlValid, ws, pingArmed, reconnectTimers, stopRequested, viewVars,
                   reconnectAttempts>>

\* ws.onopen of socket s.
onopen(s) ==
    /\ transport[s] = "CONNECTING"
    /\ transport' = [transport EXCEPT ![s] = "OPEN"]
    /\ isConnected' = TRUE
    /\ reconnectAttempts' = 0
    /\ sent' = onConnect(ws, transport')
    /\ updateConnectionStatus(TRUE)
    /\ closes' = 0
    /\ unacked' = 0
    /\ recovered' = (closes > maxReconnectAttempts)
    /\ lastOp' = Op("onopen", s, transport[s], NoFrame, FALSE)
    /\ UNCHANGED <<urlValid, ws, pingArmed, reconnectTimers, stopRequested, viewVars>>

\* The server starts the closing handshake of socket s: its readyState is
\* CLOSING until the close event is dispatched, and no callback runs.
closingHandshake(s) ==
    /\ transport[s] = "OPEN"
    /\ transport' = [transport EXCEPT ![s] = "CLOSING"]
    /\ sent' = << >>
    /\ lastOp' = Op("closingHandshake", s, transport[s], NoFrame, FALSE)
    /\ UNCHANGED <<urlValid, ws, isConnected, reconnectAttempts, pingArmed,
                   reconnectTimers, statusText, indicatorActive, closes,
                   stopRequested, viewVars, unacked, recovered>>

\* ws.onerror of socket s: the connection has failed.
onerror(s) ==
    /\ transport[s] \in {"CONNECTING", "OPEN", "CLOSING"}
    /\ transport' = [transport EXCEPT ![s] = "ERRORED"]
    /\ isConnected' = FALSE
    /\ sent' = << >>
    /\ lastOp' = Op("onerror", s, transport[s], NoFrame, FALSE)
    /\ UNCHANGED <<urlValid, ws, reconnectAttempts, pingArmed, reconnectTimers,
                   statusText, indicatorActive, closes, stopRequested, viewVars,
                   unacked, recovered>>

\* ws.onclose of socket s.
onclose(s) ==
    /\ transport[s] \in {"OPEN", "CLOSING", "ERRORED"}
    /\ transport' = [transport EXCEPT ![s] = "CLOSED"]
    /\ isConnected' = FALSE
    /\ updateConnectionStatus(FALSE)
    /\ LET R == reconnectPolicy(reconnectAttempts, reconnectTimers) IN
         /\ reconnectAttempts' = R.attempts
         /\ reconnectTimers' = R.timers
    /\ sent' = << >>
    /\ closes' = IF closes < CloseCountCap THEN closes + 1 ELSE closes
    /\ unacked' = 0
    /\ lastOp' = Op("onclose", s, transport[s], NoFrame, FALSE)
    /\ UNCHANGED <<urlValid, ws, pingArmed, stopRequested, viewVars, recovered>>

\* ws.onmessage of socket s with frame f.
onmessage(s, f) ==
    /\ transport[s] \in {"OPEN", "CLOSING"}
    /\ LET R == handleMessage(f, Client) IN
         /\ ws' = R.session.ws
         /\ transport' = R.session.transport
         /\ isConnected' = R.session.isConnected
         /\ reconnectAttempts' = R.session.reconnectAttempts
         /\ pingArmed' = R.session.pingArmed
         /\ reconnectTimers' = R.session.reconnectTimers
         /\ metrics' = R.view.metrics
         /\ agentGrid' = R.view.agentGrid
         /\ board' = R.view.board
         /\ stages' = R.view.stages
         /\ sent' = R.sent
    /\ unacked' = IF f.kind = "pong" THEN 0 ELSE unacked
    /\ lastOp' = Op("onmessage", s, transport[s], f, FALSE)
    /\ UNCHANGED <<urlValid, statusText, indicatorActive, closes, stopRequested,
                   recovered>>

\* The callback of setTimeout(() => this.connect(), this.reconnectInterval).
reconnectTimeout ==
    /\ reconnectTimers > 0
    /\ urlValid => HasFreeSocket(transport)
    /\ reconnectTimers' = reconnectTimers - 1
    /\ connect
    /\ sent' = << >>
    /\ recovered' = FALSE
    /\ lastOp' = Op("reconnectTimeout", ws', "NONE", NoFrame, ~urlValid)
    /\ UNCHANGED <<urlValid, isConnected, reconnectAttempts, pingArmed,
                   statusText, indicatorActive, closes, stopRequested, viewVars,
                   unacked>>

\* The callback of the constructor's setInterval with a watchdog: after two
\* pings without a pong it closes the socket.
pingResult_watchdog(S) ==
    [session |-> IF S.isConnected /\ S.ws # 0 /\ unacked >= 2
                 THEN [S EXCEPT !.transport = [S.transport EXCEPT ![S.ws] = wsClose(@)]]
                 ELSE S,
     sent |-> IF S.isConnected THEN send("ping", S.ws, S.transport) ELSE << >>]

\* The callback of the constructor's setInterval, as a function of the
\* session: the session after it and the frames sent.
pingResult(S) ==
    [session |-> S,
     sent |-> IF S.isConnected THEN send("ping", S.ws, S.transport) ELSE << >>]

\* The callback of the constructor's setInterval.
pingTick ==
    /\ pingArmed
    /\ LET R == pingResult(Session) IN
         /\ ws' = R.session.ws
         /\ transport' = R.session.transport
         /\ isConnected' = R.session.isConnected
         /\ reconnectAttempts' = R.session.reconnectAttempts
         /\ pingArmed' = R.session.pingArmed
         /\ reconnectTimers' = R.session.reconnectTimers
         /\ sent' = R.sent
         /\ unacked' = IF R.sent # << >> /\ unacked < MaxUnacked
                       THEN unacked + 1 ELSE unacked
    /\ lastOp' = Op("pingTick", ws, IF ws = 0 THEN "NONE" ELSE transport[ws], NoFrame, FALSE)
    /\ UNCHANGED <<urlValid, statusText, indicatorActive, closes, stopRequested,
                   viewVars, recovered>>

\* A call of disconnect() by the page.
disconnect ==
    /\ LET R == disconnectResult(Session) IN
         /\ ws' = R.ws
         /\ transport' = R.transport
         /\ isConnected' = R.isConnected
         /\ reconnectAttempts' = R.reconnectAttempts
         /\ pingArmed' = R.pingArmed
         /\ reconnectTimers' = R.reconnectTimers
    /\ stopRequested' = (stopRequested \/ (ws # 0 /\ transport[ws] \in {"CONNECTING", "OPEN"}))
    /\ sent' = << >>
    /\ lastOp' = Op("disconnect", ws, IF ws = 0 THEN "NONE" ELSE transport[ws], NoFrame, FALSE)
    /\ UNCHANGED <<urlValid, statusText, indicatorActive, closes, viewVars, unacked,
                   recovered>>

\* The client is at rest: no transport is alive and no reconnect is pending.
Idle == LiveSockets(transport) = {} /\ reconnectTimers = 0

\* A call of connect() by the page, made to restart a client at rest.
userConnect ==
    /\ Idle
    /\ connect
    /\ stopRequested' = FALSE
    /\ sent' = << >>
    /\ recovered' = FALSE
    /\ lastOp' = Op("connect", ws', "NONE", NoFrame, ~urlValid)
    /\ UNCHANGED <<urlValid, isConnected, reconnectAttempts, pingArmed,
                   reconnectTimers, statusText, indicatorActive, closes, viewVars,
                   unacked>>

----------------------------------------------------------------------------
(* The other scripts of the page: realtime-updates.js *)

\* Values of (min + Math.random() * (max - min)).toFixed(1) in tenths, for
\* the rate (90 to 98), and of 240 + Math.floor(Math.random() * 30).
TickRates == {900, 980}
TickVelocities == {12345}
TickCounts == {250}

\* The [data-stage] elements in document order; they are the page's
\* .pipeline-stage elements.
StageOrder == << "build", "test" >>

\* The callback of the first setInterval of startRealTimeUpdates(): new
\* random texts for #tcr, #velocity and #total-agents.
realtimeTick ==
    /\ \E r \in TickRates, v \in TickVelocities, n \in TickCounts :
          metrics' = [metrics EXCEPT !["tcr"] = Text("fixed1%", r),
                                     !["velocity"] = Text("fixed1", v),
                                     !["total-agents"] = Text("raw", n)]
    /\ sent' = << >>
    /\ lastOp' = Op("realtimeTick", ws, IF ws = 0 THEN "NONE" ELSE transport[ws], NoFrame, FALSE)
    /\ UNCHANGED <<urlValid, ws, transport, isConnected, reconnectAttempts, pingArmed,
                   reconnectTimers, statusText, indicatorActive, closes, stopRequested,
                   agentGrid, board, stages, unacked, recovered>>

\* updatePipeline() without foundRunning: every running stage becomes
\* completed and the pending stage after it running.
updatePipeline_everyRunning(advance, S) ==
    IF ~advance THEN S
    ELSE [g \in DOMAIN S |->
            IF S[g] = "running" THEN "completed"
            ELSE IF S[g] = "pending"
                    /\ \E i \in 1..(Len(StageOrder) - 1) :
                          StageOrder[i + 1] = g /\ S[StageOrder[i]] = "running"
                 THEN "running"
                 ELSE S[g]]

\* updatePipeline(), given whether Math.random() > 0.7: the first running
\* stage becomes completed and the stage after it, if pending, running.
updatePipeline(advance, S) ==
    LET running == {i \in 1..Len(StageOrder) : S[StageOrder[i]] = "running"} IN
    IF running = {} \/ ~advance THEN S
    ELSE LET i == CHOOSE i \in running : \A j \in running : i <= j
             S1 == [S EXCEPT ![StageOrder[i]] = "completed"]
         IN  IF i < Len(StageOrder) /\ S[StageOrder[i + 1]] = "pending"
             THEN [S1 EXCEPT ![StageOrder[i + 1]] = "running"]
             ELSE S1

\* The callback of setInterval(updatePipeline, 5000).
pipelineTick ==
    /\ \E advance \in BOOLEAN : stages' = updatePipeline(advance, stages)
    /\ sent' = << >>
    /\ lastOp' = Op("pipelineTick", ws, IF ws = 0 THEN "NONE" ELSE transport[ws], NoFrame, FALSE)
    /\ UNCHANGED <<urlValid, ws, transport, isConnected, reconnectAttempts, pingArmed,
                   reconnectTimers, statusText, indicatorActive, closes, stopRequested,
                   metrics, agentGrid, board, unacked, recovered>>

----------------------------------------------------------------------------
(* The frames the server sends *)

\* Sample numbers, in hundredths: 90.46, 75.12 and 12.50.
RateHigh == 9046
RateLow == 7512
Velocity == 1250

\* Frames that no handler writes the view for.
SessionFrames == {Pong, UnknownType, NotAnObject, Unparseable}

\* Every subset of the three fields, and a second rate.
SystemFrames ==
    {SystemUpdate(tcr, velocity, total) :
        tcr \in {NoNumber, RateLow},
        velocity \in {NoNumber, Velocity},
        total \in {NoNumber, 8}}
    \cup {SystemUpdate(RateHigh, NoNumber, NoNumber)}

PipelineFrames ==
    {PipelineUpdate(stage, "running") : stage \in {"build", "deploy", "undefined"}}
    \cup {PipelineUpdate("build", "undefined")}

\* An entry of the agents object of an initial frame.
AgentEntry(agentId, rate) == [agent_id |-> agentId, task_completion_rate |-> rate]

AgentLists ==
    { << >>,
      << AgentEntry("AGT-1", RateHigh) >>,
      << AgentEntry("AGT-2", RateLow) >>,
      << AgentEntry("AGT-1", RateLow), AgentEntry("AGT-2", NoNumber) >> }

AgentFrames ==
    {MetricUpdate(agentId, rate) :
        agentId \in AgentIds \cup {"undefined"},
        rate \in {NoNumber, RateHigh, RateLow}}
    \cup {InitialData(FALSE, << >>, TRUE, agents, FALSE, << >>) : agents \in AgentLists}

\* A task as the server describes it.
Task(taskId, status) == TaskData(taskId, status, "undefined", "AGT-1", NoNumber)

TaskLists ==
    { << >>,
      << Task("T1", "backlog") >>,
      << Task("T1", "in_progress"), Task("T2", "done") >>,
      << Task("T2", "testing"), Task("T2", "failed") >> }

TaskFrames ==
    {TaskUpdate(taskId, status, "undefined", "AGT-1", NoNumber) :
        taskId \in TaskIds, status \in {"in_progress", "done"}}
    \cup {TaskUpdate("T1", "blocked", "undefined", "AGT-1", NoNumber),
          TaskUpdate("undefined", "done", "undefined", "AGT-1", NoNumber),
          TaskUpdate("T1", "undefined", "undefined", "AGT-1", NoNumber)}
    \cup {InitialData(FALSE, << >>, FALSE, << >>, TRUE, tasks) : tasks \in TaskLists}

\* An initial frame with a system metric the page has no element for, an
\* agent and a task.
SnapshotFrames ==
    {InitialData(TRUE, << [key |-> "uptime", value |-> 8] >>,
                 TRUE, << AgentEntry("AGT-1", RateHigh) >>,
                 TRUE, << Task("T1", "testing") >>)}

\* Pipeline updates for the stages of the page and for one it does not show.
StageFrames ==
    {PipelineUpdate(stage, status) :
        stage \in StageIds, status \in {"running", "completed"}}

\* A snapshot whose system metrics are valid and whose agent entry carries a
\* string for the rate.
BadSnapshot ==
    InitialData(TRUE, << [key |-> "tcr", value |-> RateHigh] >>,
                TRUE, << AgentEntry("AGT-2", NotANumber) >>,
                TRUE, << Task("T2", "backlog") >>)

\* A few frames of every kind that writes the view.
MixedFrames ==
    {MetricUpdate("AGT-1", RateHigh), MetricUpdate("AGT-1", RateLow),
     TaskUpdate("T1", "in_progress", "undefined", "AGT-1", NoNumber),
     TaskUpdate("T1", "done", "undefined", "AGT-1", NoNumber),
     PipelineUpdate("build", "running"), PipelineUpdate("deploy", "running"),
     SystemUpdate(RateLow, NoNumber, NoNumber),
     BadSnapshot}

----------------------------------------------------------------------------
(* Specifications *)

\* The client with a server that sends only frames of SessionFrames.
Next ==
    \/ \E s \in Sockets : onopen(s)
    \/ \E s \in Sockets : closingHandshake(s)
    \/ \E s \in Sockets : onerror(s)
    \/ \E s \in Sockets : onclose(s)
    \/ \E s \in Sockets : \E f \in SessionFrames : onmessage(s, f)
    \/ reconnectTimeout
    \/ pingTick
    \/ disconnect
    \/ userConnect

Spec == Init /\ [][Next]_vars

\* The client with a server that sends system and pipeline updates and a
\* snapshot.
SystemNext ==
    \/ Next
    \/ \E s \in Sockets :
         \E f \in SystemFrames \cup PipelineFrames \cup SnapshotFrames : onmessage(s, f)

SystemSpec == Init /\ [][SystemNext]_vars

\* The client with a server that sends agent metrics.
AgentNext ==
    \/ Next
    \/ \E s \in Sockets : \E f \in AgentFrames : onmessage(s, f)

AgentSpec == Init /\ [][AgentNext]_vars

\* The client with a server that sends task updates.
TaskNext ==
    \/ Next
    \/ \E s \in Sockets : \E f \in TaskFrames : onmessage(s, f)

TaskSpec == Init /\ [][TaskNext]_vars

\* Task updates that describe one task in two ways, and another task.
DetailFrames ==
    {TaskUpdate("T1", "in_progress", "Fix login", "AGT-1", 1250),
     TaskUpdate("T1", "done", "Rewrite login", "AGT-2", 4320),
     TaskUpdate("T2", "testing", "undefined", "AGT-2", NoNumber)}

\* The client with a server that sends task updates with details.
DetailNext ==
    \/ Next
    \/ \E s \in Sockets : \E f \in DetailFrames : onmessage(s, f)

DetailSpec == Init /\ [][DetailNext]_vars

\* Snapshots that carry one section, two, or none, and one whose list of
\* recent tasks is empty.
SectionFrames ==
    {InitialData(FALSE, << >>, FALSE, << >>, FALSE, << >>),
     InitialData(TRUE, << [key |-> "tcr", value |-> RateHigh] >>, FALSE, << >>, FALSE, << >>),
     InitialData(FALSE, << >>, TRUE, << AgentEntry("AGT-1", RateLow) >>, FALSE, << >>),
     InitialData(FALSE, << >>, FALSE, << >>, TRUE, << Task("T1", "testing") >>),
     InitialData(FALSE, << >>, FALSE, << >>, TRUE, << >>),
     InitialData(TRUE, << [key |-> "tcr", value |-> RateLow] >>,
                 TRUE, << AgentEntry("AGT-1", RateHigh) >>, FALSE, << >>)}

\* The client with a server that sends partial snapshots.
SectionNext ==
    \/ Next
    \/ \E s \in Sockets : \E f \in SectionFrames : onmessage(s, f)

SectionSpec == Init /\ [][SectionNext]_vars

\* The client with a server that sends pipeline updates.
PipelineNext ==
    \/ Next
    \/ \E s \in Sockets : \E f \in StageFrames : onmessage(s, f)

PipelineSpec == Init /\ [][PipelineNext]_vars

\* The client with a server that sends frames of every kind.
MixedNext ==
    \/ Next
    \/ \E s \in Sockets : \E f \in MixedFrames : onmessage(s, f)

MixedSpec == Init /\ [][MixedNext]_vars

\* Frames for the elements that realtime-updates.js writes too.
PageFrames ==
    {SystemUpdate(RateLow, NoNumber, NoNumber),
     PipelineUpdate("build", "running"), PipelineUpdate("test", "pending")}

\* The client in the dashboard page, whose DOMContentLoaded handler has
\* called startRealTimeUpdates().
PageNext ==
    \/ Next
    \/ \E s \in Sockets : \E f \in PageFrames : onmessage(s, f)
    \/ realtimeTick
    \/ pipelineTick

PageSpec == Init /\ [][PageNext]_vars

\* What the browser guarantees: a pending timeout fires, a connecting socket
\* opens or fails, a closing or failed socket delivers its close event.
TransportSettles ==
    \E s \in Sockets :
        \/ transport[s] = "CONNECTING" /\ (onopen(s) \/ onerror(s))
        \/ transport[s] \in {"CLOSING", "ERRORED"} /\ onclose(s)

FairSpec == Spec /\ WF_vars(reconnectTimeout) /\ WF_vars(TransportSettles)

\* The text of a metric element.
MetricTexts ==
    [fmt : {"static", "fixed1%", "fixed1", "integer", "raw"}, n : Nat]

TypeOK ==
    /\ urlValid \in BOOLEAN
    /\ ws \in 0..MaxSockets
    /\ transport \in [Sockets -> TransportStates]
    /\ isConnected \in BOOLEAN
    /\ reconnectAttempts \in Nat
    /\ pingArmed \in BOOLEAN
    /\ reconnectTimers \in Nat
    /\ statusText \in {"static", "System Online", "Connecting..."}
    /\ indicatorActive \in BOOLEAN
    /\ closes \in 0..CloseCountCap
    /\ stopRequested \in BOOLEAN
    /\ metrics \in [MetricIds -> MetricTexts]
    /\ \A i \in 1..Len(agentGrid) : agentGrid[i].health \in {"healthy", "warning"}
    /\ DOMAIN board = 1..4
    /\ DOMAIN stages = PageStages
    /\ unacked \in 0..MaxUnacked
    /\ recovered \in BOOLEAN

----------------------------------------------------------------------------
(* Vocabulary of the properties *)

\* The session state of the specification, read off this.ws.
SessionState ==
    IF ws = 0 THEN "Disconnected"
    ELSE CASE transport[ws] = "CONNECTING" -> "Connecting"
           [] transport[ws] = "OPEN"       -> "Open"
           [] transport[ws] = "CLOSING"    -> "Closing"
           [] OTHER                        -> "Disconnected"

\* The sockets on which this step starts a connection attempt.
NewAttempts == {s \in Sockets : transport'[s] = "CONNECTING" /\ transport[s] # "CONNECTING"}

\* This step is a run of ws.onclose.
CloseStep == lastOp'.op = "onclose"

\* This step arms one reconnect timeout / none.
ArmsReconnect == reconnectTimers' = reconnectTimers + 1
ArmsNoReconnect == reconnectTimers' = reconnectTimers

\* A pending reconnect timeout leads to a connection attempt.
ReconnectFollows == (reconnectTimers > 0) ~> (\E s \in Sockets : transport[s] = "CONNECTING")

----------------------------------------------------------------------------
(* C1 *)

\* C1 as stated: at the N-th consecutive close, N < 10 arms a reconnect that
\* leads to a new attempt and N = 10 arms none.
C1_CapAtTenthClose ==
    [][CloseStep => /\ closes' < maxReconnectAttempts => ArmsReconnect
                    /\ closes' = maxReconnectAttempts => ArmsNoReconnect]_vars

\* C1 (amended): at the N-th consecutive close with no open in between, every
\* N <= 10 arms exactly one reconnect timeout, which leads to a new connection
\* attempt; the N-th close with N > 10 (first the 11th, the close of the 10th
\* reconnect attempt) arms none and leaves the client at rest.
C1_RetryCap ==
    /\ [][CloseStep => IF closes' <= maxReconnectAttempts
                       THEN ArmsReconnect /\ reconnectAttempts' = closes'
                       ELSE ArmsNoReconnect /\ Idle']_vars
    /\ ReconnectFollows

C1_Witness ==
    /\ lastOp.op = "onclose"
    /\ closes = maxReconnectAttempts + 1
    /\ reconnectAttempts = maxReconnectAttempts
    /\ Idle

----------------------------------------------------------------------------
(* C2 *)

\* C2: once disconnect() has been called on a connecting or open transport,
\* no callback arms a reconnect timeout and no connection attempt is started
\* (until the page itself calls connect()).
C2_DisconnectStays ==
    [][(stopRequested /\ lastOp'.op # "connect")
        => (reconnectTimers' <= reconnectTimers /\ NewAttempts = {})]_vars

----------------------------------------------------------------------------
(* C3 *)

\* C3: disconnect() called with no live transport and a reconnect timeout
\* pending cancels both timers: no reconnect timeout is pending and the ping
\* interval is cleared afterwards.
C3_DisconnectCancelsTimers ==
    [][(lastOp'.op = "disconnect" /\ SessionState = "Disconnected" /\ reconnectTimers > 0)
        => (reconnectTimers' = 0 /\ ~pingArmed')]_vars

----------------------------------------------------------------------------
(* C4 *)

\* C4 as stated: disconnect() twice leaves the session that disconnect() once
\* leaves, and disconnect() on a Disconnected session changes nothing.
C4_NoOpWhenDisconnected ==
    /\ disconnectResult(disconnectResult(Session)) = disconnectResult(Session)
    /\ SessionState = "Disconnected" => disconnectResult(Session) = Session

\* C4 (amended): in every session state disconnect() twice leaves the session
\* that disconnect() once leaves, and disconnect() on a Disconnected session
\* changes nothing but the ping interval, which it clears.
C4_Idempotent ==
    /\ disconnectResult(disconnectResult(Session)) = disconnectResult(Session)
    /\ SessionState = "Disconnected"
          => disconnectResult(Session) = [Session EXCEPT !.pingArmed = FALSE]

C4_Witness ==
    /\ lastOp.op = "disconnect"
    /\ lastOp.from = "CLOSED"
    /\ SessionState = "Disconnected"
    /\ reconnectTimers > 0
    /\ ~pingArmed

----------------------------------------------------------------------------
(* C5 *)

\* C5: after a close that armed no reconnect (the cap is exhausted) the status
\* text is not the one shown while a reconnect is pending ('Connecting...').
C5_TerminalStatusDistinct ==
    (lastOp.op = "onclose" /\ reconnectTimers = 0) => statusText # "Connecting..."

----------------------------------------------------------------------------
(* C6 *)

\* C6: every run of ws.onopen leaves the socket OPEN, isConnected true and the
\* retry count 0, and transmits exactly one frame, a get_metrics request on
\* the socket that opened.
C6_OnOpen ==
    [][lastOp'.op = "onopen"
        => /\ transport'[lastOp'.sock] = "OPEN"
           /\ isConnected'
           /\ reconnectAttempts' = 0
           /\ sent' = << [sock |-> lastOp'.sock, type |-> "get_metrics"] >>]_vars

C6_Witness ==
    /\ lastOp.op = "onopen"
    /\ isConnected
    /\ reconnectAttempts = 0
    /\ SessionState = "Open"
    /\ sent = << [sock |-> ws, type |-> "get_metrics"] >>

----------------------------------------------------------------------------
(* C7 *)

\* C7: a close of an OPEN transport leaves isConnected false, raises the retry
\* count by exactly 1, arms exactly one reconnect timeout and starts no
\* attempt itself; an attempt the page did not ask for is started only by a
\* reconnect timeout firing, one attempt per timeout; and the armed timeout
\* leads to an attempt.
C7_CloseWhileOpen ==
    /\ [][(CloseStep /\ lastOp'.from = "OPEN")
           => /\ ~isConnected'
              /\ SessionState' = "Disconnected"
              /\ reconnectAttempts' = reconnectAttempts + 1
              /\ ArmsReconnect
              /\ NewAttempts = {}]_vars
    /\ [][(NewAttempts # {} /\ lastOp'.op # "connect")
           => /\ lastOp'.op = "reconnectTimeout"
              /\ reconnectTimers' = reconnectTimers - 1
              /\ Cardinality(NewAttempts) = 1]_vars
    /\ ReconnectFollows

C7_Witness ==
    /\ lastOp.op = "onclose"
    /\ lastOp.from = "OPEN"
    /\ ~isConnected
    /\ reconnectAttempts = 1
    /\ reconnectTimers = 1

----------------------------------------------------------------------------
(* C8 *)

\* C8: after a transport failure (an error event, a close event, or new
\* WebSocket() throwing inside connect()) with retry budget left, a reconnect
\* timeout is eventually armed.
C8_FailureLeadsToReconnect ==
    ((lastOp.op \in {"onerror", "onclose"} \/ lastOp.threw)
         /\ reconnectAttempts < maxReconnectAttempts)
      ~> (reconnectTimers > 0)

----------------------------------------------------------------------------
(* C9 *)

\* C9: whenever the session is Open the ping interval is armed.
C9_PingArmedWhileOpen ==
    (isConnected /\ SessionState = "Open") => pingArmed

----------------------------------------------------------------------------
(* C10 *)

\* This step is ws.onmessage with a pong frame.
PongStep == lastOp'.op = "onmessage" /\ lastOp'.frame.kind = "pong"

----------------------------------------------------------------------------
(* C11 *)

\* This step is a run of the ping interval's callback.
PingStep == lastOp'.op = "pingTick"

\* C11: the liveness check is advisory.  A ping tick, however many pings have
\* gone out since the last pong, closes no transport, leaves this.ws,
\* isConnected and the status display as they are, and arms no reconnect
\* timeout: it leaves the whole session as it found it.
C11_PingIsAdvisory ==
    [][PingStep => /\ Session' = Session
                   /\ SessionState' = SessionState
                   /\ statusText' = statusText
                   /\ indicatorActive' = indicatorActive]_vars

\* C11 happens: a ping has just gone out on an open session that has had no
\* pong for MaxUnacked pings.
C11_Witness ==
    /\ lastOp.op = "pingTick"
    /\ sent # << >>
    /\ unacked = MaxUnacked
    /\ SessionState = "Open"
    /\ isConnected

----------------------------------------------------------------------------
(* C12 *)

\* A frame that does not decode to an object: invalid JSON, or JSON that is
\* not an object.
Undecodable(f) == f.kind \in {"unparseable", "not_object"}

\* This step is ws.onmessage with such a frame.
UndecodableStep == lastOp'.op = "onmessage" /\ Undecodable(lastOp'.frame)

\* This step is ws.onmessage with a system_update, right after such a frame.
RecoveryStep ==
    /\ lastOp.op = "onmessage" /\ Undecodable(lastOp.frame)
    /\ lastOp'.op = "onmessage" /\ lastOp'.frame.kind = "system_update"

\* The metrics show every field the system_update f carries, in the format of
\* its metric.
ShowsFields(f, M) ==
    /\ f.system_tcr # NoNumber => M["tcr"] = Text("fixed1%", toFixed1(f.system_tcr))
    /\ f.system_velocity # NoNumber => M["velocity"] = Text("integer", mathRound(f.system_velocity))
    /\ f.total_agents # NoNumber => M["total-agents"] = Text("raw", f.total_agents)

\* C12: a frame that cannot be decoded changes nothing in the session, the
\* view or the status display and sends nothing, the callback completing; and
\* the valid frame that follows it is applied as ever (a system_update shows
\* each field it carries).
C12_UndecodableIgnored ==
    [][/\ UndecodableStep => /\ Session' = Session
                             /\ View' = View
                             /\ UNCHANGED <<statusText, indicatorActive>>
                             /\ sent' = << >>
       /\ RecoveryStep => ShowsFields(lastOp'.frame, metrics')]_vars

\* C12 happens: invalid JSON has just arrived on an open session whose view
\* holds data of earlier frames, and the session can receive the next frame.
C12_Witness ==
    /\ lastOp.op = "onmessage"
    /\ lastOp.frame.kind = "unparseable"
    /\ lastOp.from = "OPEN"
    /\ SessionState = "Open"
    /\ metrics["tcr"].fmt = "fixed1%"
    /\ stages["build"] = "running"

----------------------------------------------------------------------------
(* C13 *)

\* A frame of a recognised type without a field its handler needs: a
\* task_update without task_id or status, a pipeline_update without stage.
MissingRequired(f) ==
    \/ f.kind = "task_update" /\ (f.task_id = "undefined" \/ f.status = "undefined")
    \/ f.kind = "pipeline_update" /\ f.stage = "undefined"

\* C13: a frame of a recognised type that lacks a required field is rejected
\* before dispatch and leaves the view as it was.
C13_MissingFieldRejected ==
    [][lastOp'.op = "onmessage" /\ MissingRequired(lastOp'.frame) => View' = View]_vars

----------------------------------------------------------------------------
(* C14 *)

\* This step is ws.onmessage with a frame whose type is missing or unknown.
UnknownTypeStep == lastOp'.op = "onmessage" /\ lastOp'.frame.kind = "unknown"

\* C14: an event whose type is missing or names no known event is dropped:
\* the session, the view and the status display stay as they were and
\* nothing is sent.
C14_UnknownTypeDropped ==
    [][UnknownTypeStep => /\ Session' = Session
                          /\ View' = View
                          /\ UNCHANGED <<statusText, indicatorActive>>
                          /\ sent' = << >>]_vars

\* C14 happens: such an event has just arrived on an open session whose view
\* holds data of earlier frames.
C14_Witness ==
    /\ lastOp.op = "onmessage"
    /\ lastOp.frame.kind = "unknown"
    /\ lastOp.from = "OPEN"
    /\ SessionState = "Open"
    /\ metrics["total-agents"].fmt = "raw"
    /\ stages["build"] = "running"

----------------------------------------------------------------------------
(* C15 *)

\* This step is ws.onmessage with a system_update.
SystemUpdateStep == lastOp'.op = "onmessage" /\ lastOp'.frame.kind = "system_update"

\* The metrics of the fields the system_update f does not carry are in M2 as
\* they are in M1.
KeepsAbsent(f, M1, M2) ==
    /\ f.system_tcr = NoNumber => M2["tcr"] = M1["tcr"]
    /\ f.system_velocity = NoNumber => M2["velocity"] = M1["velocity"]
    /\ f.total_agents = NoNumber => M2["total-agents"] = M1["total-agents"]

\* C15: a system_update with any subset of system_tcr, system_velocity and
\* total_agents sets exactly the metrics of the fields it carries to the
\* carried values (the rate to one decimal with '%', the velocity rounded, the
\* count as it is); the metric of every absent field, the agent cards, the
\* task board, the pipeline stages and the session keep their values.
C15_SystemUpdatePartial ==
    [][SystemUpdateStep => /\ ShowsFields(lastOp'.frame, metrics')
                           /\ KeepsAbsent(lastOp'.frame, metrics, metrics')
                           /\ UNCHANGED <<agentGrid, board, stages>>
                           /\ Session' = Session]_vars

\* C15 happens: a system_update with the count alone has arrived on a page
\* that shows a rate of an earlier one, an agent card, a task card and a
\* pipeline status.
C15_Witness ==
    /\ lastOp.op = "onmessage"
    /\ lastOp.frame.kind = "system_update"
    /\ lastOp.frame.system_tcr = NoNumber
    /\ lastOp.frame.system_velocity = NoNumber
    /\ lastOp.frame.total_agents # NoNumber
    /\ metrics["tcr"] = Text("fixed1%", toFixed1(RateLow))
    /\ metrics["velocity"] = Static
    /\ metrics["total-agents"] = Text("raw", lastOp.frame.total_agents)
    /\ agentGrid # << >>
    /\ board # EmptyBoard
    /\ stages["build"] = "running"

----------------------------------------------------------------------------
(* C16 *)

\* The metric_update frames the server sends.
MetricFrames == {f \in AgentFrames : f.kind = "metric_update"}

\* C16: metric_update is idempotent.  In every reachable state, for every
\* metric_update, the view after applying it twice is the view after applying
\* it once, whether its agent has a card (patched) or has none (created).
C16_MetricUpdateIdempotent ==
    \A f \in MetricFrames :
        dispatch(f, dispatch(f, View)) = dispatch(f, View)

\* C16 happens: a metric_update has patched the rate of an agent whose card
\* an earlier one created, while the other agent has no card yet.
C16_Witness ==
    /\ lastOp.op = "onmessage"
    /\ lastOp.frame.kind = "metric_update"
    /\ lastOp.frame.agent_id = "AGT-2"
    /\ lastOp.frame.task_completion_rate = RateLow
    /\ Len(agentGrid) = 1
    /\ agentGrid[1] = [id |-> "AGT-2", tcr |-> toFixed1(RateLow), health |-> "healthy"]

----------------------------------------------------------------------------
(* C17 *)

\* The task ids that have a card on board B, and the number of cards on it.
BoardIds(B) == UNION {{B[c][i].id : i \in 1..Len(B[c])} : c \in 1..4}
CardCount(B) == Len(B[1]) + Len(B[2]) + Len(B[3]) + Len(B[4])

\* The task ids of a list of tasks.
ListedIds(tasks) == {tasks[i].task_id : i \in 1..Len(tasks)}

\* This step is ws.onmessage with an initial frame that carries recent_tasks.
TaskSnapshotStep ==
    /\ lastOp'.op = "onmessage"
    /\ lastOp'.frame.kind = "initial"
    /\ lastOp'.frame.has_recent_tasks

\* C17: an initial frame with recent_tasks replaces the task board.  After it
\* the board holds one card per entry of the list, each in the column of its
\* status, and a card for no other task, whatever the board held before.
C17_SnapshotReplacesTasks ==
    [][TaskSnapshotStep =>
         LET tasks == lastOp'.frame.recent_tasks IN
         /\ BoardIds(board') = ListedIds(tasks)
         /\ CardCount(board') = Len(tasks)
         /\ \A i \in 1..Len(tasks) :
              \E k \in 1..Len(board'[columnIndex(tasks[i].status)]) :
                 LET card == board'[columnIndex(tasks[i].status)][k] IN
                 card.id = tasks[i].task_id /\ card.status = tasks[i].status]_vars

\* C17 happens: a snapshot that lists T1 alone has arrived and the board
\* holds the one card of T1, in the backlog.
C17_Witness ==
    /\ lastOp.op = "onmessage"
    /\ lastOp.frame.kind = "initial"
    /\ lastOp.frame.has_recent_tasks
    /\ ListedIds(lastOp.frame.recent_tasks) = {"T1"}
    /\ BoardIds(board) = {"T1"}
    /\ Len(board[1]) = 1
    /\ reconnectAttempts = 0 /\ closes = 0 /\ SessionState = "Open"

----------------------------------------------------------------------------
(* C18 *)

\* The agent ids that have a card in grid G, and those of an agents object.
GridIds(G) == {G[i].id : i \in 1..Len(G)}
EntryIds(agents) == {agents[i].agent_id : i \in 1..Len(agents)}

\* This step is ws.onmessage with an initial frame that carries agents.
AgentSnapshotStep ==
    /\ lastOp'.op = "onmessage"
    /\ lastOp'.frame.kind = "initial"
    /\ lastOp'.frame.has_agents

\* C18: an initial frame with an agents map replaces the agent cards: after
\* it the agents with a card are exactly the keys of the map.
C18_SnapshotReplacesAgents ==
    [][AgentSnapshotStep => GridIds(agentGrid') = EntryIds(lastOp'.frame.agents)]_vars

----------------------------------------------------------------------------
(* C19 *)

\* The number of cards with task id t on board B, and with agent id a in
\* grid G.
TaskCards(B, t) ==
    Cardinality({p \in (1..4) \X (1..CardCount(B)) :
                    p[2] <= Len(B[p[1]]) /\ B[p[1]][p[2]].id = t})
AgentCards(G, a) == Cardinality({i \in 1..Len(G) : G[i].id = a})

\* C19: ids are unique: the view never holds two task cards for one task_id
\* or two agent cards for one agent_id.
C19_UniqueIds ==
    /\ \A t \in BoardIds(board) : TaskCards(board, t) <= 1
    /\ \A a \in GridIds(agentGrid) : AgentCards(agentGrid, a) <= 1

----------------------------------------------------------------------------
(* C20 *)

\* The stored stage of task t on board B: the column and status class of each
\* of its cards.
StageOf(B, t) ==
    {<<c, B[c][i].status>> : <<c, i>> \in
        {p \in (1..4) \X (1..CardCount(B)) :
            p[2] <= Len(B[p[1]]) /\ B[p[1]][p[2]].id = t}}

\* This step is ws.onmessage with a task_update.
TaskUpdateStep == lastOp'.op = "onmessage" /\ lastOp'.frame.kind = "task_update"

\* C20: the last writer wins.  A task_update for a task with at most one card
\* leaves it with one card whose status class is the carried status and, when
\* that is one of the five lifecycle stages, whose column is the column of
\* that stage; and it changes the stored stage of no other task.  So the
\* stage stored for a task is the one of the latest task_update for it.
C20_LastWriterWins ==
    [][TaskUpdateStep =>
         LET f == lastOp'.frame IN
         /\ TaskCards(board, f.task_id) <= 1 =>
              /\ TaskCards(board', f.task_id) = 1
              /\ \A st \in StageOf(board', f.task_id) :
                   /\ st[2] = f.status
                   /\ f.status \in TaskStages => st[1] = targetColumn(f.status)
         /\ \A u \in (BoardIds(board) \cup BoardIds(board')) \ {f.task_id} :
              StageOf(board', u) = StageOf(board, u)]_vars

\* C20 happens: T1, whose card stood in another column, has been moved by a
\* task_update with status done behind the card of T2.
C20_Witness ==
    /\ lastOp.op = "onmessage"
    /\ lastOp.frame.kind = "task_update"
    /\ lastOp.frame.task_id = "T1"
    /\ lastOp.frame.status = "done"
    /\ Len(board[4]) = 2
    /\ board[4][1].id = "T2" /\ board[4][1].status = "done"
    /\ board[4][2].id = "T1" /\ board[4][2].status = "done"
    /\ CardCount(board) = 2

----------------------------------------------------------------------------
(* C21 *)

\* C21: after an initial frame whose agents map gives agent A the rate r, the
\* grid holds exactly one card for A and that card shows r (to one decimal),
\* whether A had a card before or not.
C21_SnapshotSetsRate ==
    [][AgentSnapshotStep =>
         \A i \in 1..Len(lastOp'.frame.agents) :
            LET e == lastOp'.frame.agents[i] IN
            e.task_completion_rate # NoNumber =>
               /\ AgentCards(agentGrid', e.agent_id) = 1
               /\ agentGrid'[AgentIndex(agentGrid', e.agent_id)].tcr
                     = toFixed1(e.task_completion_rate)]_vars

\* C21 happens: a snapshot has given AGT-1 the low rate, and the card of
\* AGT-1, created earlier with the high rate (its health class shows it),
\* now shows the low one.
C21_Witness ==
    /\ lastOp.op = "onmessage"
    /\ lastOp.frame.kind = "initial"
    /\ lastOp.frame.has_agents
    /\ \E i \in 1..Len(lastOp.frame.agents) :
          lastOp.frame.agents[i] = AgentEntry("AGT-1", RateLow)
    /\ AgentCards(agentGrid, "AGT-1") = 1
    /\ agentGrid[AgentIndex(agentGrid, "AGT-1")] =
          [id |-> "AGT-1", tcr |-> toFixed1(RateLow), health |-> "healthy"]

----------------------------------------------------------------------------
(* C22 *)

\* This step is ws.onmessage with a metric_update that names an agent, with a
\* pipeline_update.
AgentUpdateStep ==
    /\ lastOp'.op = "onmessage"
    /\ lastOp'.frame.kind = "metric_update"
    /\ lastOp'.frame.agent_id # "undefined"
PipelineUpdateStep == lastOp'.op = "onmessage" /\ lastOp'.frame.kind = "pipeline_update"

\* The agent and task halves of the keyed upsert: an absent id gets its card,
\* a present id keeps its one card, and the card shows the carried values.
UpsertsAgent ==
    AgentUpdateStep =>
        LET f == lastOp'.frame IN
        /\ AgentCards(agentGrid', f.agent_id) = 1
        /\ Len(agentGrid') = Len(agentGrid) + (IF AgentCards(agentGrid, f.agent_id) = 0 THEN 1 ELSE 0)
        /\ f.task_completion_rate # NoNumber =>
              agentGrid'[AgentIndex(agentGrid', f.agent_id)].tcr = toFixed1(f.task_completion_rate)
UpsertsTask ==
    TaskUpdateStep =>
        LET f == lastOp'.frame IN
        /\ TaskCards(board', f.task_id) = 1
        /\ CardCount(board') = CardCount(board) + (IF TaskCards(board, f.task_id) = 0 THEN 1 ELSE 0)
        /\ \A st \in StageOf(board', f.task_id) : st[2] = f.status

\* C22 as stated: every keyed event creates the snapshot of an absent id and
\* patches that of a present one; a pipeline_update for a stage the view does
\* not hold creates the stage with the carried status.
C22_KeyedUpsert ==
    [][/\ UpsertsAgent
       /\ UpsertsTask
       /\ PipelineUpdateStep =>
             /\ lastOp'.frame.stage \in DOMAIN stages'
             /\ stages'[lastOp'.frame.stage] = lastOp'.frame.status]_vars

\* C22 (amended): a metric_update with agent_id and a task_update create the
\* card of an absent id and patch that of a present one; a pipeline_update
\* patches the status of a stage the page shows and, for a stage it does not
\* show, creates nothing and changes nothing.
C22_UpsertExceptStages ==
    [][/\ UpsertsAgent
       /\ UpsertsTask
       /\ PipelineUpdateStep =>
             IF lastOp'.frame.stage \in DOMAIN stages
             THEN stages' = [stages EXCEPT ![lastOp'.frame.stage] = lastOp'.frame.status]
             ELSE View' = View]_vars

\* C22 happens: a pipeline_update for a stage the page does not show has
\* arrived, on a page that holds a created and patched agent card, a task
\* card and a patched stage.
C22_Witness ==
    /\ lastOp.op = "onmessage"
    /\ lastOp.frame.kind = "pipeline_update"
    /\ lastOp.frame.stage \notin DOMAIN stages
    /\ stages["build"] = "running"
    /\ agentGrid = << [id |-> "AGT-1", tcr |-> toFixed1(RateLow), health |-> "healthy"] >>
    /\ TaskCards(board, "T1") = 1

----------------------------------------------------------------------------
(* C23 *)

\* C23: a pipeline_update sets the status of the stage it names and leaves
\* every other stage, the metrics, the cards and the session as they were.
\* In particular a stage that is running stays running when another stage is
\* set to running: the client does not enforce a single running stage.
C23_OnlyAddressedStage ==
    [][PipelineUpdateStep =>
         LET f == lastOp'.frame IN
         /\ f.stage \in DOMAIN stages => stages'[f.stage] = f.status
         /\ \A g \in DOMAIN stages \ {f.stage} : stages'[g] = stages[g]
         /\ UNCHANGED <<metrics, agentGrid, board>>
         /\ Session' = Session]_vars

\* C23 happens: test has been set to running while build was running, and
\* both are running.
C23_Witness ==
    /\ lastOp.op = "onmessage"
    /\ lastOp.frame = PipelineUpdate("test", "running")
    /\ stages["build"] = "running"
    /\ stages["test"] = "running"

----------------------------------------------------------------------------
(* C24 *)

----------------------------------------------------------------------------
(* C25 *)

\* The retries have run out: the client is at rest with its retry count at
\* the cap.
Exhausted == Idle /\ reconnectAttempts = maxReconnectAttempts

\* C25: once the retries have run out, a connection attempt is made only by
\* an explicit call of connect(); every open, the one such a call reaches
\* included, sets the retry count to zero; and when the session so recovered
\* closes, the close arms a reconnect timeout as the first of a new budget.
C25_ExplicitRestart ==
    [][/\ Exhausted /\ NewAttempts # {} => lastOp'.op = "connect"
       /\ Exhausted => reconnectTimers' = 0
       /\ lastOp'.op = "onopen" => reconnectAttempts' = 0
       /\ recovered /\ CloseStep => ArmsReconnect /\ reconnectAttempts' = 1]_vars

\* C25 happens: a session opened by connect() after the retries had run out
\* has closed, and the first reconnect of the new budget is pending.
C25_Witness ==
    /\ recovered
    /\ lastOp.op = "onclose"
    /\ reconnectAttempts = 1
    /\ reconnectTimers = 1

----------------------------------------------------------------------------
(* C26 *)

\* This step is ws.onmessage with a metric_update that names no agent.
SystemMetricStep ==
    /\ lastOp'.op = "onmessage"
    /\ lastOp'.frame.kind = "metric_update"
    /\ lastOp'.frame.agent_id = "undefined"
    /\ lastOp'.frame.task_completion_rate # NoNumber

\* C26: a metric_update without agent_id is applied as a system metric: it
\* changes the system metrics and creates or changes no agent card.
C26_SystemMetricApplied ==
    [][SystemMetricStep => metrics' # metrics /\ agentGrid' = agentGrid]_vars

----------------------------------------------------------------------------
(* C27 *)

\* C27: single writer.  In the dashboard page the system metrics and the
\* stage statuses change only in a step that applies an initial, a
\* system_update or a pipeline_update; no timer callback changes them.
C27_SingleWriter ==
    [][metrics' # metrics \/ stages' # stages =>
         /\ lastOp'.op = "onmessage"
         /\ lastOp'.frame.kind \in {"initial", "system_update", "pipeline_update"}]_vars

----------------------------------------------------------------------------
(* C28 *)

\* Handling frame f raises an error that ws.onmessage catches.
Raises(f) ==
    \/ f.kind = "unparseable"
    \/ f.kind = "metric_update" /\ (f.agent_id = "undefined" \/ Throws(f))
    \/ f.kind = "initial" /\ f.has_agents /\ AgentsThrow(f.agents)

\* C28: events are applied atomically: when handling an event raises an
\* error part-way, the view afterwards shows none of that event's changes.
C28_AtomicEvents ==
    [][lastOp'.op = "onmessage" /\ Raises(lastOp'.frame) => View' = View]_vars

----------------------------------------------------------------------------
(* C29 *)

\* C29: the retry count stays between 0 and maxReconnectAttempts in every
\* reachable state.
C29_RetryCountBounded ==
    /\ 0 <= reconnectAttempts
    /\ reconnectAttempts <= maxReconnectAttempts

\* C29 happens: the close of the last reconnect attempt has found the count
\* at the cap and left it there.
C29_Witness ==
    /\ lastOp.op = "onclose"
    /\ reconnectAttempts = maxReconnectAttempts
    /\ closes > maxReconnectAttempts
    /\ reconnectTimers = 0

----------------------------------------------------------------------------
(* C30 *)

\* The transports that are connecting or open.
ActiveSockets == {s \in Sockets : transport[s] \in {"CONNECTING", "OPEN"}}

\* C30: a single connect chain.  At most one reconnect timeout is pending, at
\* most one transport is connecting or open, and never both at once, calls of
\* disconnect() included.
C30_SingleChain ==
    /\ reconnectTimers <= 1
    /\ Cardinality(ActiveSockets) <= 1
    /\ ~(reconnectTimers > 0 /\ ActiveSockets # {})

\* C30 happens: after a disconnect() the close has armed the one reconnect
\* timeout, with no transport connecting or open.
C30_Witness ==
    /\ stopRequested
    /\ lastOp.op = "onclose"
    /\ reconnectTimers = 1
    /\ ActiveSockets = {}

----------------------------------------------------------------------------
(* C31 *)

\* C31: frames go out on an OPEN transport only.  A callback transmits
\* either nothing or the one frame it sends now (a ping in a ping tick, a
\* get_metrics in ws.onopen) on this.ws with readyState OPEN; and a ping tick
\* on a transport that is not OPEN, isConnected still being true, transmits
\* nothing and leaves the session as it was, so that nothing is kept for a
\* later callback to deliver.
C31_SendOnlyWhenOpen ==
    [][/\ sent' # << >> =>
             /\ Len(sent') = 1
             /\ sent'[1].sock = ws' /\ transport'[ws'] = "OPEN"
             /\ \/ lastOp'.op = "pingTick" /\ sent'[1].type = "ping" /\ transport[ws] = "OPEN"
                \/ lastOp'.op = "onopen" /\ sent'[1].type = "get_metrics"
       /\ PingStep /\ (ws = 0 \/ transport[ws] # "OPEN") =>
             sent' = << >> /\ Session' = Session]_vars

\* C31 happens: a ping tick has fired with isConnected true on a transport
\* that the server is closing, and nothing was transmitted.
C31_Witness ==
    /\ lastOp.op = "pingTick"
    /\ lastOp.from = "CLOSING"
    /\ isConnected
    /\ sent = << >>

----------------------------------------------------------------------------
(* C32 *)

\* The client against a server that accepts every connection and then closes
\* it, after sending any frames: the URL is valid, every connecting socket
\* opens, no socket fails, and the page calls neither connect() nor
\* disconnect().
FlapInit == Init /\ urlValid

\* The server accepts the connection of a socket.
ServerAccepts == \E s \in Sockets : onopen(s)

\* The server closes an accepted connection.
ServerCloses == \E s \in Sockets : onclose(s)

FlapNext ==
    \/ ServerAccepts
    \/ \E s \in Sockets : closingHandshake(s)
    \/ ServerCloses
    \/ \E s \in Sockets : \E f \in SessionFrames \cup PipelineFrames : onmessage(s, f)
    \/ reconnectTimeout
    \/ pingTick

\* The server does accept and does close; an armed timeout does fire.
FlapSpec ==
    /\ FlapInit /\ [][FlapNext]_vars
    /\ WF_vars(ServerAccepts) /\ WF_vars(ServerCloses) /\ WF_vars(reconnectTimeout)

\* C32: against a server that accepts every connection and then closes it,
\* the retry count never exceeds 1, every close arms a reconnect timeout,
\* the client is never at rest with its retries used up, each close is
\* followed by a new connection attempt, and closes and attempts go on
\* forever.
C32_FlappingNeverExhausts ==
    /\ [](reconnectAttempts <= 1)
    /\ [](~Exhausted)
    /\ [](lastOp.op = "onclose" => reconnectTimers > 0 /\ reconnectAttempts = 1)
    /\ (lastOp.op = "onclose") ~> (lastOp.op = "reconnectTimeout" /\ transport[ws] = "CONNECTING")
    /\ []<>(lastOp.op = "onclose")
    /\ []<>(lastOp.op = "reconnectTimeout")

\* C32 happens: the server has closed a connection it had accepted, the
\* retry count stands at 1 and a reconnect timeout is armed.
C32_Witness ==
    /\ lastOp.op = "onclose"
    /\ lastOp.from \in {"OPEN", "CLOSING"}
    /\ reconnectAttempts = 1
    /\ reconnectTimers = 1

----------------------------------------------------------------------------
(* C33 *)

\* C33: every agent card's health class agrees with the rate it displays:
\* healthy exactly when the displayed rate is at least 80.0.
C33_HealthMatchesRate ==
    \A i \in 1..Len(agentGrid) :
        agentGrid[i].health = (IF agentGrid[i].tcr >= 800 THEN "healthy" ELSE "warning")

----------------------------------------------------------------------------
(* C34 *)

\* C34: the column of a task card is a function of its latest status alone.
\* A task_update that carries a status, applied to a board with at most one
\* card of the task, leaves the card in the column where the same event
\* would put it on a board without the task.
C34_ColumnFromStatus ==
    [][TaskUpdateStep /\ lastOp'.frame.status # "undefined" =>
         LET f == lastOp'.frame IN
         TaskCards(board, f.task_id) <= 1 =>
             TaskColumns(board', f.task_id) =
                 TaskColumns(handleTaskUpdate(f, EmptyBoard), f.task_id)]_vars

----------------------------------------------------------------------------
(* C35 *)

\* The description, agent and duration shown by the cards of task t.
DetailsOf(B, t) ==
    {<<B[p[1]][p[2]].description, B[p[1]][p[2]].agent, B[p[1]][p[2]].duration>> :
        p \in {q \in (1..4) \X (1..CardCount(B)) :
                  q[2] <= Len(B[q[1]]) /\ B[q[1]][q[2]].id = t}}

\* C35: a task_update for a task that has a card changes only that card's
\* status class and column.  The board keeps its cards; every task, the
\* addressed one included, shows the description, agent and duration it
\* showed before, whatever the event carries; and every other task keeps its
\* column and status class.
C35_UpdateKeepsDetails ==
    [][TaskUpdateStep /\ lastOp'.frame.task_id \in BoardIds(board) =>
         LET f == lastOp'.frame IN
         /\ BoardIds(board') = BoardIds(board)
         /\ CardCount(board') = CardCount(board)
         /\ \A u \in BoardIds(board) : DetailsOf(board', u) = DetailsOf(board, u)
         /\ \A u \in BoardIds(board) \ {f.task_id} : StageOf(board', u) = StageOf(board, u)]_vars

\* C35 happens: the card of T1, created as "Fix login" of AGT-1, has been
\* moved to the last column by an event that describes T1 otherwise, and
\* shows what it showed.
C35_Witness ==
    /\ lastOp.op = "onmessage"
    /\ lastOp.frame = TaskUpdate("T1", "done", "Rewrite login", "AGT-2", 4320)
    /\ \E i \in 1..Len(board[4]) :
          board[4][i] = [id |-> "T1", status |-> "done", description |-> "Fix login",
                         agent |-> "AGT-1", duration |-> toFixed1(1250)]

----------------------------------------------------------------------------
(* C36 *)

\* This step is ws.onmessage with an initial frame.
InitialStep == lastOp'.op = "onmessage" /\ lastOp'.frame.kind = "initial"

----------------------------------------------------------------------------
(* C37 *)

\* C37: once the indicator has been written, it shows 'System Online'
\* exactly when isConnected is true; in particular it does not show online
\* after a transport error.
C37_IndicatorMatchesFlag ==
    statusText # "static" => (statusText = "System Online" <=> isConnected)

----------------------------------------------------------------------------
(* C38 *)

\* The positions in the page of the stages with status st.
StagesWith(S, st) == {i \in 1..Len(StageOrder) : S[StageOrder[i]] = st}

\* The positions of the stages that this step gives status st.
Becomes(st) == StagesWith(stages', st) \ StagesWith(stages, st)

\* C38: a tick of updatePipeline completes at most one stage and starts at
\* most one.  The stage it completes is the first running one; the stage it
\* starts is the one after the stage it completes and was pending, and it is
\* running, not completed, after the tick; no other stage changes; and with
\* at most one stage running before the tick, at most one is running after.
C38_TickAdvancesOneStage ==
    [][lastOp'.op = "pipelineTick" =>
         /\ Cardinality(Becomes("completed")) <= 1
         /\ Cardinality(Becomes("running")) <= 1
         /\ \A i \in Becomes("completed") :
               i \in StagesWith(stages, "running")
               /\ \A j \in StagesWith(stages, "running") : i <= j
         /\ \A i \in Becomes("running") :
               i - 1 \in Becomes("completed") /\ i \in StagesWith(stages, "pending")
         /\ \A i \in 1..Len(StageOrder) :
               stages'[StageOrder[i]] # stages[StageOrder[i]] =>
                   i \in Becomes("completed") \cup Becomes("running")
         /\ Cardinality(StagesWith(stages, "running")) <= 1 =>
               Cardinality(StagesWith(stages', "running")) <= 1]_vars

\* C38 happens: a tick has completed the first stage and started the second,
\* which is running.
C38_Witness ==
    /\ lastOp.op = "pipelineTick"
    /\ stages["build"] = "completed"
    /\ stages["test"] = "running"

============================================================================
